---- MODULE Spec2Model ----
(***************************************************************************)
(* VRack2 Modbus: the bus controller DeviceRTU (control handoff, offline   *)
(* timer, action queue) and the ModbusRTU frame codec it polls through.    *)
(***************************************************************************)
EXTENDS Integers, Sequences, FiniteSets, Bags, TLC

\* ---------------------------------------------------------------- bounds
\* inputBus activations that can be in progress at the same time
MaxCycles == 2
\* last sequence id getQueueIndex may hand out
MaxQueueIndex == 2
\* timer handles the Node timer table can hold at once
MaxTimers == 2

TimerId == 1..MaxTimers

\* ------------------------------------------------------------ bit helpers
RECURSIVE Xor(_, _)
Xor(a, b) ==
  IF a = 0 THEN b
  ELSE IF b = 0 THEN a
  ELSE (((a % 2) + (b % 2)) % 2) + 2 * Xor(a \div 2, b \div 2)

\* ------------------------------------------------------- ModbusRTU codec
Polynomial == 40961
CrcSeed == 65535

\* the inner loop of calculateCRC16: j shift steps on the running value
RECURSIVE CrcShift(_, _)
CrcShift(crc, j) ==
  IF j = 0 THEN crc
  ELSE CrcShift(IF crc % 2 # 0 THEN Xor(crc \div 2, Polynomial) ELSE crc \div 2, j - 1)

\* The outer loop of calculateCRC16 over buffer[from..to], entered with the
\* running value crc: one pass of its body on a single byte, and on a longer
\* stretch the passes over its first half followed by those over the rest.
RECURSIVE CrcFrom(_, _, _, _)
CrcFrom(crc, buffer, from, to) ==
  LET mid == (from + to) \div 2
      byte[c \in 0..65535] == CrcShift(Xor(c, buffer[from]), 8)
      rest[c \in 0..65535] == CrcFrom(c, buffer, mid + 1, to)
  IN  IF from > to THEN crc
      ELSE IF from = to THEN byte[crc]
      ELSE rest[CrcFrom(crc, buffer, from, mid)]

calculateCRC16(buffer) == CrcFrom(CrcSeed, buffer, 1, Len(buffer))

\* buffer.readUInt16LE(buffer.length - 2)
ReadUInt16LE(buffer, at) == buffer[at + 1] + 256 * buffer[at + 2]

verifyCRC(buffer) ==
  IF Len(buffer) < 2 THEN FALSE
  ELSE ReadUInt16LE(buffer, Len(buffer) - 2)
         = calculateCRC16(SubSeq(buffer, 1, Len(buffer) - 2))

\* addCRC writing the trailer with writeUInt16BE.
addCRC_bigEndian(data) ==
  LET crc == calculateCRC16(data)
  IN  data \o <<(crc \div 256), (crc % 256)>>

addCRC(data) ==
  LET crc == calculateCRC16(data)
  IN  data \o <<(crc % 256), (crc \div 256)>>

ReadClass == {1, 2, 3, 4}

\* isCompletePacket leaving the CRC trailer out of the expected length.
isCompletePacket_noTrailer(buffer) ==
  IF Len(buffer) < 4 THEN FALSE
  ELSE IF buffer[2] \in ReadClass /\ Len(buffer) > 5
       THEN Len(buffer) = buffer[3] + 3
       ELSE Len(buffer) = 8

\* isCompletePacket taking a 5-byte exception reply for complete.
isCompletePacket_exception(buffer) ==
  IF Len(buffer) < 4 THEN FALSE
  ELSE IF buffer[2] \in ReadClass /\ Len(buffer) > 5
       THEN Len(buffer) = buffer[3] + 5
       ELSE IF buffer[2] >= 128 THEN Len(buffer) = 5
       ELSE Len(buffer) = 8

isCompletePacket(buffer) ==
  IF Len(buffer) < 4 THEN FALSE
  ELSE IF buffer[2] \in ReadClass /\ Len(buffer) > 5
       THEN Len(buffer) = buffer[3] + 5
       ELSE Len(buffer) = 8

\* The result of a call that may throw: [threw, value]
Returned(v) == [threw |-> FALSE, value |-> v]
Thrown(e) == [threw |-> TRUE, value |-> e]

\* The exception branch keeping the high bit in functionCode.
ExceptionResponse_keepBit(buffer) ==
  [slaveId |-> buffer[1], functionCode |-> buffer[2], byteCount |-> 0,
   data |-> <<>>, exceptionCode |-> buffer[3]]

\* `if ((functionCode & 0x80) !== 0) return {...}`: the exception reply
ExceptionResponse(buffer) ==
  [slaveId |-> buffer[1], functionCode |-> buffer[2] % 128, byteCount |-> 0,
   data |-> <<>>, exceptionCode |-> buffer[3]]

\* The switch keeping the default byteCount for the read-class codes.
DataResponse_defaultCount(buffer) ==
  [slaveId |-> buffer[1], functionCode |-> buffer[2],
   byteCount |-> Len(buffer) - 4,
   data |-> IF buffer[2] \in ReadClass THEN SubSeq(buffer, 4, Len(buffer) - 2)
            ELSE SubSeq(buffer, 3, Len(buffer) - 2)]

\* The data reply without the switch: every code sliced the default way.
DataResponse_noSwitch(buffer) ==
  [slaveId |-> buffer[1], functionCode |-> buffer[2],
   byteCount |-> Len(buffer) - 4,
   data |-> SubSeq(buffer, 3, Len(buffer) - 2)]

\* The reply without the high bit: the default slicing, overridden by the
\* switch for the read class.
DataResponse(buffer) ==
  IF buffer[2] \in ReadClass
  THEN [slaveId |-> buffer[1], functionCode |-> buffer[2],
        byteCount |-> buffer[3],
        data |-> SubSeq(buffer, 4, Len(buffer) - 2)]
  ELSE [slaveId |-> buffer[1], functionCode |-> buffer[2],
        byteCount |-> Len(buffer) - 4,
        data |-> SubSeq(buffer, 3, Len(buffer) - 2)]

\* parseResponse verifying the CRC before it looks at the length.
parseResponse_crcFirst(buffer) ==
  IF ~verifyCRC(buffer) THEN Thrown("V2MODBUS_CRC_CHECK_FAILED")
  ELSE IF Len(buffer) < 4 THEN Thrown("V2MODBUS_PACKET_TOO_SHORT")
  ELSE IF buffer[2] >= 128 THEN Returned(ExceptionResponse(buffer))
  ELSE Returned(DataResponse(buffer))

parseResponse(buffer) ==
  IF Len(buffer) < 4 THEN Thrown("V2MODBUS_PACKET_TOO_SHORT")
  ELSE IF ~verifyCRC(buffer) THEN Thrown("V2MODBUS_CRC_CHECK_FAILED")
  ELSE IF buffer[2] >= 128 THEN Returned(ExceptionResponse(buffer))
  ELSE Returned(DataResponse(buffer))

\* ------------------------------------------------------------ makeRequest
\* The two bytes writeUInt16LE would write.
UInt16LE(value) == <<value % 256, value \div 256>>

\* buffer.writeUInt16BE(value, at): the two bytes written
UInt16BE(value) == <<value \div 256, value % 256>>

\* A request as makeRequest receives it is a record slaveId, functionCode,
\* address, quantity, with the field writeData when the fifth argument is
\* an array and the field other when it is a value of any other kind.
HasWriteData(req) == "writeData" \in DOMAIN req

\* The packing loop filling each byte from its high bit down.
CoilByte_msbFirst(writeData, quantity, byteIndex) ==
  LET bit(bitIndex) ==
        LET i == 8 * byteIndex + bitIndex
        IN  IF i < quantity /\ writeData[i + 1] # 0 THEN 2 ^ (7 - bitIndex) ELSE 0
  IN  bit(0) + bit(1) + bit(2) + bit(3) + bit(4) + bit(5) + bit(6) + bit(7)

\* The packing loop of case 0x0F: the byte at 7 + byteIndex once every
\* writeData[i] with Math.floor(i / 8) = byteIndex has been looked at.
CoilByte(writeData, quantity, byteIndex) ==
  LET bit(bitIndex) ==
        LET i == 8 * byteIndex + bitIndex
        IN  IF i < quantity /\ writeData[i + 1] # 0 THEN 2 ^ bitIndex ELSE 0
  IN  bit(0) + bit(1) + bit(2) + bit(3) + bit(4) + bit(5) + bit(6) + bit(7)

\* The loop of case 0x10: value & 0xFFFF of every register, big-endian.
RegisterBytes(writeData) ==
  [k \in 1..(2 * Len(writeData)) |->
     UInt16BE(writeData[(k + 1) \div 2] % 65536)[2 - (k % 2)]]

\* Case 0x05 writing the quantity argument itself.
CoilValue_raw(quantity) == quantity % 65536

\* case 0x05: `quantity ? 0xFF00 : 0x0000`
CoilValue(quantity) == IF quantity # 0 THEN 65280 ELSE 0

\* Case 0x0F taking a missing writeData for an empty array.
WriteCoilsBody_noPresence(req) ==
  IF ~HasWriteData(req) \/ Len(req.writeData) < 1 \/ Len(req.writeData) > 1968
  THEN Thrown("V2MODBUS_COILS_COUNT_INVALID")
  ELSE LET count == Len(req.writeData)
           coilBytes == (count + 7) \div 8
       IN  Returned(UInt16BE(count) \o <<coilBytes>> \o
                    [j \in 1..coilBytes |-> CoilByte(req.writeData, count, j - 1)])

\* case 0x0F: what goes behind the address, or the error
WriteCoilsBody(req) ==
  IF ~HasWriteData(req) THEN Thrown("V2MODBUS_WRITE_DATA_REQUIRED_COILS")
  ELSE IF Len(req.writeData) < 1 \/ Len(req.writeData) > 1968
  THEN Thrown("V2MODBUS_COILS_COUNT_INVALID")
  ELSE LET count == Len(req.writeData)
           coilBytes == (count + 7) \div 8
       IN  Returned(UInt16BE(count) \o <<coilBytes>> \o
                    [j \in 1..coilBytes |-> CoilByte(req.writeData, count, j - 1)])

\* Case 0x10 with the limit of a register read (125) for the limit of a write.
WriteRegistersBody_readLimit(req) ==
  IF ~HasWriteData(req) THEN Thrown("V2MODBUS_WRITE_DATA_REQUIRED_REGISTERS")
  ELSE IF Len(req.writeData) < 1 \/ Len(req.writeData) > 125
  THEN Thrown("V2MODBUS_REGISTERS_COUNT_INVALID")
  ELSE LET count == Len(req.writeData)
       IN  Returned(UInt16BE(count) \o <<count * 2>> \o
                    RegisterBytes(req.writeData))

\* case 0x10: what goes behind the address, or the error
WriteRegistersBody(req) ==
  IF ~HasWriteData(req) THEN Thrown("V2MODBUS_WRITE_DATA_REQUIRED_REGISTERS")
  ELSE IF Len(req.writeData) < 1 \/ Len(req.writeData) > 123
  THEN Thrown("V2MODBUS_REGISTERS_COUNT_INVALID")
  ELSE LET count == Len(req.writeData)
       IN  Returned(UInt16BE(count) \o <<count * 2>> \o
                    RegisterBytes(req.writeData))

\* writeUInt16BE(quantity, 4), which rejects a value outside 0..65535
QuantityBody(quantity) ==
  IF quantity \in 0..65535 THEN Returned(UInt16BE(quantity))
  ELSE Thrown("ERR_OUT_OF_RANGE")

\* The switch without `case 0x06`.
RequestBody_no06(req) ==
  IF req.functionCode \in {1, 2, 3, 4} THEN QuantityBody(req.quantity)
  ELSE IF req.functionCode = 5 THEN Returned(UInt16BE(CoilValue(req.quantity)))
  ELSE IF req.functionCode = 15 THEN WriteCoilsBody(req)
  ELSE IF req.functionCode = 16 THEN WriteRegistersBody(req)
  ELSE Thrown("V2MODBUS_UNSUPPORTED_FUNCTION_CODE")

\* Everything makeRequest puts behind the address (offset 4 onwards), or the
\* error the switch ends with.
RequestBody(req) ==
  IF req.functionCode \in {1, 2, 3, 4, 6} THEN QuantityBody(req.quantity)
  ELSE IF req.functionCode = 5 THEN Returned(UInt16BE(CoilValue(req.quantity)))
  ELSE IF req.functionCode = 15 THEN WriteCoilsBody(req)
  ELSE IF req.functionCode = 16 THEN WriteRegistersBody(req)
  ELSE Thrown("V2MODBUS_UNSUPPORTED_FUNCTION_CODE")

\* makeRequest without the two masking assignments.
makeRequest_noMask(req) ==
  LET body == RequestBody(req)
  IN  IF body.threw THEN body
      ELSE Returned(addCRC(<<req.slaveId, req.functionCode>> \o UInt16BE(req.address)
                           \o body.value))

makeRequest(req) ==
  LET slaveId == req.slaveId % 256
      address == req.address % 65536
      body == RequestBody(req)
  IN  IF body.threw THEN body
      ELSE Returned(addCRC(<<slaveId, req.functionCode>> \o UInt16BE(address)
                           \o body.value))

\* --------------------------------------------------- transport collaborator
\* What the slave puts on the line in answer to one request: a well-formed
\* reply to READ_DISCRETE_INPUTS, the same reply with a damaged CRC, a
\* 5-byte exception reply, and silence.
GoodReply == addCRC(<<1, 2, 1, 5>>)
BadCrcReply == <<1, 2, 1, 5, 0, 0>>
ExceptionReply == addCRC(<<1, 130, 2>>)
WireReplies == {GoodReply, BadCrcReply, ExceptionReply, <<>>}

\* Provider.autoRequest + getBuffer: the bytes received once the registered
\* package check accepts them, or a timeout after the retries are used up.
autoRequest(wire) ==
  LET done == {n \in 0..Len(wire) : isCompletePacket(SubSeq(wire, 1, n))}
  IN  IF done = {} THEN Thrown("RequestTimeout")
      ELSE Returned(SubSeq(wire, 1, CHOOSE n \in done : \A m \in done : n <= m))

\* DeviceRTU.request: send, await the complete reply, parse it.
request(wire) ==
  LET got == autoRequest(wire)
  IN  IF got.threw THEN got ELSE parseResponse(got.value)

\* ------------------------------------------------------------------ state
VARIABLES
  shares,        \* shares: online, process (and progress once a gate wrote it)
  Provider,      \* the provider of the last accepted handoff (0: none yet)
  queue,         \* the Map of queue entries, in insertion order
  queueIndex,    \* next sequence id
  offlineTimer,  \* 0 or the handle of the timer oGate armed last
  timers,        \* handles of the timers pending in the timer table
  cycles,        \* the bag of inputBus activations in progress
  promises,      \* per sequence id: the promise actionAddQueue returned
  last,          \* how the activation that ended last ended
  codec          \* the codec call under way: its input, buffer and result

vars == <<shares, Provider, queue, queueIndex, offlineTimer, timers, cycles,
          promises, last, codec>>

\* the state of the device object
device == <<shares, Provider, queue, queueIndex, offlineTimer, timers, cycles,
            promises, last>>

\* A codec call before it is made.
\*   input:  a buffer [kind |-> "buffer", bytes] or a request
\*           [kind |-> "request", slaveId, functionCode, address, quantity
\*            (, writeData)]
\*   buffer: the bytes in hand (the input's, or the frame built from it)
\*   made:   "addCRC" or "makeRequest" when the buffer is a frame built here
\*   call:   the function applied last, and result: what it returned or threw
NoCall(input) ==
  [input |-> input,
   buffer |-> IF input.kind = "buffer" THEN input.bytes ELSE <<>>,
   made |-> "none", call |-> "none", result |-> Returned(0)]

\* Task bodies an action may enqueue: one that completes, one that throws.
Methods == {"ok", "throw"}

\* An activation of inputBus as it is entered.
\*   pc:      "task" (awaiting a queued method) or "update" (awaiting the poll)
\*   keys:    what is left of the snapshot, the head being the key in hand
\*   snap:    the keys the snapshot held when runQueue took it
\*   ran:     the keys whose method this pass has called
\*   late:    the keys enqueued while this pass was draining
\*   renders: how many times this activation has called render()
NewCycle ==
  [pc |-> "entered", keys |-> <<>>, snap |-> {}, ran |-> {}, late |-> {},
   renders |-> 0]

Cycles == BagToSet(cycles)
Put(bag, cy) == bag (+) SetToBag({cy})
Take(bag, cy) == bag (-) SetToBag({cy})

\* The outcome of an activation, as its caller sees it.
\*   result:  "returned" or "threw" ("none" before the first one ends)
\*   gates:   how many times it ran oGate;  renders: its render() calls
\*   raised:  the error update() failed with
\*   logged:  the error it passed to this.error()
\*   thrown:  the error inputBus rejected with
\*   online:  shares.online as it left it
NoOutcome ==
  [result |-> "none", gates |-> 0, renders |-> 0, raised |-> "none",
   logged |-> "none", thrown |-> "none", online |-> FALSE]

\* shares[key] = value, creating the key when it is not there yet
SetShare(s, key, value) ==
  [x \in DOMAIN s \cup {key} |-> IF x = key THEN value ELSE s[x]]

KeysOf(q) == [i \in 1..Len(q) |-> q[i].key]
HasKey(q, key) == \E i \in 1..Len(q) : q[i].key = key
QueueSet(q, key, method) == Append(q, [key |-> key, method |-> method])
QueueDelete(q, key) == SelectSeq(q, LAMBDA e : e.key # key)

NewPromise(method) ==
  [method |-> method, state |-> "pending", value |-> 0, calls |-> 0]

\* The device as its constructor leaves it.
Constructed ==
  /\ shares = [online |-> FALSE, process |-> FALSE]
  /\ Provider = 0
  /\ queue = <<>>
  /\ queueIndex = 1
  /\ offlineTimer = 0
  /\ timers = {}
  /\ cycles = EmptyBag
  /\ promises = <<>>
  /\ last = NoOutcome

Init ==
  /\ Constructed
  /\ codec = NoCall([kind |-> "buffer", bytes |-> <<>>])

\* ---------------------------------------------------------- actionAddQueue
\* Bookkeeping: every pass that is draining notes the key as enqueued late.
NoteLate(bag, key) ==
  LET noted(cy) == IF cy.pc = "task" THEN [cy EXCEPT !.late = @ \cup {key}] ELSE cy
  IN  [r \in {noted(cy) : cy \in DOMAIN bag} |->
         bag[CHOOSE cy \in DOMAIN bag : noted(cy) = r]]

\* actionAddQueue calling the method itself as it stores the entry.
actionAddQueue_runs(method) ==
  /\ queueIndex <= MaxQueueIndex
  /\ queue' = QueueSet(queue, queueIndex, method)
  /\ queueIndex' = queueIndex + 1
  /\ promises' = Append(promises, [NewPromise(method) EXCEPT !.calls = 1])
  /\ cycles' = NoteLate(cycles, queueIndex)
  /\ UNCHANGED <<shares, Provider, offlineTimer, timers, last, codec>>

\* actionAddQueue: store the entry under the next index and hand back its
\* promise; the method is not called and the provider is not used.
actionAddQueue(method) ==
  /\ queueIndex <= MaxQueueIndex
  /\ queue' = QueueSet(queue, queueIndex, method)
  /\ queueIndex' = queueIndex + 1
  /\ promises' = Append(promises, NewPromise(method))
  /\ cycles' = NoteLate(cycles, queueIndex)
  /\ UNCHANGED <<shares, Provider, offlineTimer, timers, last, codec>>

\* ---------------------------------------------------------------- runQueue
\* What a task body does when it is called: its result, or the error it throws.
MethodOutcome(method, key) ==
  IF method = "throw" THEN Thrown(0 - key) ELSE Returned(key)

\* Settle without the catch branch: a failing task leaves its promise pending.
Settle_noReject(pr, key, outcome) ==
  IF pr[key].state # "pending" \/ outcome.threw THEN pr
  ELSE [pr EXCEPT ![key].state = "resolved", ![key].value = outcome.value]

\* value.resolve(result) / value.reject(err) on the promise of `key`; a
\* promise that is already settled keeps its state.
Settle(pr, key, outcome) ==
  IF pr[key].state # "pending" THEN pr
  ELSE [pr EXCEPT ![key].state = IF outcome.threw THEN "rejected" ELSE "resolved",
                  ![key].value = outcome.value]

\* `if (value === undefined) continue`: pass over the keys that are gone.
RECURSIVE Skip(_, _)
Skip(keys, q) ==
  IF keys = <<>> THEN <<>>
  ELSE IF HasKey(q, Head(keys)) THEN keys
  ELSE Skip(Tail(keys), q)

\* Rest iterating the live Map instead of the snapshot array.
Rest_live(keys, q) == SelectSeq(KeysOf(q), LAMBDA k : k > Head(keys))

\* `for (const key of keys)`: the keys still to visit after the one in hand.
Rest(keys, q) == Tail(keys)

\* The for loop of runQueue entered with `keys` still to visit, up to its
\* next await (the method of the next live key has been called) or, when no
\* key is left, up to the await in update() (the poll request has been sent).
RunLoop(cy, keys, q, pr) ==
  LET todo == Skip(keys, q)
  IN  IF todo = <<>>
      THEN [cycle |-> [cy EXCEPT !.pc = "update", !.keys = <<>>], promises |-> pr]
      ELSE [cycle |-> [cy EXCEPT !.pc = "task", !.keys = todo,
                                 !.ran = @ \cup {Head(todo)}],
            promises |-> [pr EXCEPT ![Head(todo)].calls = @ + 1]]

\* runQueue from its first line: nothing to do on an empty queue, otherwise
\* snapshot the keys and enter the loop.
runQueue(cy, q, pr) ==
  RunLoop([cy EXCEPT !.snap = {q[i].key : i \in 1..Len(q)}], KeysOf(q), q, pr)

\* ------------------------------------------------------------------ gates
\* iGate setting the flag the guard of inputBus reads.
iGate_process(cy) ==
  /\ timers' = IF offlineTimer # 0 THEN timers \ {offlineTimer} ELSE timers
  /\ shares' = SetShare(shares, "process", TRUE)
  /\ cycles' = Put(cycles, [cy EXCEPT !.renders = @ + 1])
  /\ UNCHANGED offlineTimer

\* iGate, for the activation that goes on as `cy`.
iGate(cy) ==
  /\ timers' = IF offlineTimer # 0 THEN timers \ {offlineTimer} ELSE timers
  /\ shares' = SetShare(shares, "progress", TRUE)
  /\ cycles' = Put(cycles, [cy EXCEPT !.renders = @ + 1])
  /\ UNCHANGED offlineTimer

\* setTimeout returns a handle no pending timer has.
FreshTimer == CHOOSE t \in TimerId \ timers : \A u \in TimerId \ timers : t <= u

\* oGate, for the activation `cy`, with `s` the shares it finds.
oGate(cy, s) ==
  /\ TimerId \ timers # {}
  /\ offlineTimer' = FreshTimer
  /\ timers' = timers \cup {FreshTimer}
  /\ shares' = SetShare(s, "progress", FALSE)
  /\ last' = [NoOutcome EXCEPT !.result = "returned", !.gates = 1,
                               !.renders = cy.renders + 1,
                               !.online = shares'.online]

\* ---------------------------------------------------------------- inputBus
\* A handoff arrives: the guard, iGate, and runQueue up to its first await.
InputBus ==
  /\ BagCardinality(cycles) < MaxCycles
  /\ IF shares.process
     THEN UNCHANGED vars
     ELSE LET next == runQueue(NewCycle, queue, promises)
          IN  /\ Provider' = 1
              /\ iGate(next.cycle)
              /\ promises' = next.promises
              /\ UNCHANGED <<queue, queueIndex, last, codec>>

\* TaskSettle with a catch block that rejects the promise and throws the
\* error on: it leaves runQueue and reaches the catch block of inputBus.
TaskSettle_rethrows(cy) ==
  /\ cy.pc = "task"
  /\ LET key == Head(cy.keys)
         outcome == MethodOutcome(promises[key].method, key)
         q1 == QueueDelete(queue, key)
         next == RunLoop(cy, Rest(cy.keys, q1), q1, Settle(promises, key, outcome))
     IN  IF outcome.threw
         THEN /\ promises' = Settle(promises, key, outcome)
              /\ shares' = SetShare(shares, "online", FALSE)
              /\ last' = [NoOutcome EXCEPT !.result = "threw", !.renders = cy.renders,
                                           !.raised = outcome.value,
                                           !.logged = outcome.value,
                                           !.thrown = outcome.value,
                                           !.online = FALSE]
              /\ cycles' = Take(cycles, cy)
              /\ UNCHANGED queue
         ELSE /\ cycles' = Put(Take(cycles, cy), next.cycle)
              /\ queue' = q1
              /\ promises' = next.promises
              /\ UNCHANGED <<shares, last>>
  /\ UNCHANGED <<Provider, queueIndex, offlineTimer, timers, codec>>

\* The method awaited by the pass `cy` settles: resolve or reject, delete the
\* entry, go on with the loop.
TaskSettle(cy) ==
  /\ cy.pc = "task"
  /\ LET key == Head(cy.keys)
         outcome == MethodOutcome(promises[key].method, key)
         q1 == QueueDelete(queue, key)
         next == RunLoop(cy, Rest(cy.keys, q1), q1, Settle(promises, key, outcome))
     IN  /\ cycles' = Put(Take(cycles, cy), next.cycle)
         /\ queue' = q1
         /\ promises' = next.promises
  /\ UNCHANGED <<shares, Provider, queueIndex, offlineTimer, timers, last, codec>>

\* What update() can end with: every reply the line can carry, through request.
PollOutcomes == {request(wire) : wire \in WireReplies}

\* update() completed: online = true, then oGate; inputBus returns.
UpdateOk(cy) ==
  /\ cy.pc = "update"
  /\ \E r \in PollOutcomes : ~r.threw
  /\ oGate(cy, SetShare(shares, "online", TRUE))
  /\ cycles' = Take(cycles, cy)
  /\ UNCHANGED <<Provider, queue, queueIndex, promises, codec>>

\* CatchUpdate without `throw err`: the failure is logged and the activation
\* goes on to oGate and returns normally.
CatchUpdate_swallow(cy, err) ==
  /\ TimerId \ timers # {}
  /\ offlineTimer' = FreshTimer
  /\ timers' = timers \cup {FreshTimer}
  /\ shares' = SetShare(SetShare(shares, "online", FALSE), "progress", FALSE)
  /\ last' = [NoOutcome EXCEPT !.result = "returned", !.gates = 1,
                               !.renders = cy.renders + 1,
                               !.raised = err, !.logged = err,
                               !.online = shares'.online]
  /\ cycles' = Take(cycles, cy)
  /\ UNCHANGED <<Provider, queue, queueIndex, promises>>

\* CatchUpdate marking the device online although update() failed.
CatchUpdate_online(cy, err) ==
  /\ shares' = SetShare(shares, "online", TRUE)
  /\ last' = [NoOutcome EXCEPT !.result = "threw", !.renders = cy.renders,
                               !.raised = err, !.logged = err, !.thrown = err,
                               !.online = shares'.online]
  /\ cycles' = Take(cycles, cy)
  /\ UNCHANGED <<Provider, queue, queueIndex, offlineTimer, timers, promises>>

\* CatchUpdate dropping what is queued when the cycle fails.
CatchUpdate_dropsQueue(cy, err) ==
  /\ shares' = SetShare(shares, "online", FALSE)
  /\ last' = [NoOutcome EXCEPT !.result = "threw", !.renders = cy.renders,
                               !.raised = err, !.logged = err, !.thrown = err,
                               !.online = shares'.online]
  /\ cycles' = Take(cycles, cy)
  /\ queue' = <<>>
  /\ UNCHANGED <<Provider, queueIndex, offlineTimer, timers, promises>>

\* The catch block of inputBus, entered with the error update() failed with.
CatchUpdate(cy, err) ==
  /\ shares' = SetShare(shares, "online", FALSE)
  /\ last' = [NoOutcome EXCEPT !.result = "threw", !.renders = cy.renders,
                               !.raised = err, !.logged = err, !.thrown = err,
                               !.online = shares'.online]
  /\ cycles' = Take(cycles, cy)
  /\ UNCHANGED <<Provider, queue, queueIndex, offlineTimer, timers, promises>>

UpdateThrows(cy) ==
  /\ cy.pc = "update"
  /\ \E r \in PollOutcomes : r.threw /\ CatchUpdate(cy, r.value)
  /\ UNCHANGED codec

\* The timer callback leaving online as it is.
OfflineTimeout_staysOnline(t) ==
  /\ t \in timers
  /\ timers' = timers \ {t}
  /\ offlineTimer' = 0
  /\ UNCHANGED <<shares, Provider, queue, queueIndex, cycles, promises, last, codec>>

\* The timer callback without `this.offlineTimer = 0`.
OfflineTimeout_keepsHandle(t) ==
  /\ t \in timers
  /\ timers' = timers \ {t}
  /\ shares' = SetShare(shares, "online", FALSE)
  /\ UNCHANGED <<Provider, queue, queueIndex, offlineTimer, cycles, promises, last, codec>>

\* The offline timer fires.
OfflineTimeout(t) ==
  /\ t \in timers
  /\ timers' = timers \ {t}
  /\ offlineTimer' = 0
  /\ shares' = SetShare(shares, "online", FALSE)
  /\ UNCHANGED <<Provider, queue, queueIndex, cycles, promises, last, codec>>

Next ==
  \/ \E method \in Methods : actionAddQueue(method)
  \/ InputBus
  \/ \E cy \in Cycles : TaskSettle(cy)
  \/ \E cy \in Cycles : UpdateOk(cy)
  \/ \E cy \in Cycles : UpdateThrows(cy)
  \/ \E t \in TimerId : OfflineTimeout(t)

Spec == Init /\ [][Next]_vars

\* The scheduling the device runs under: handoffs keep arriving, and every
\* task and every poll routine that is awaited comes to an end.
Fairness ==
  /\ WF_vars(InputBus)
  /\ WF_vars(\E cy \in Cycles : TaskSettle(cy))
  /\ WF_vars(\E cy \in Cycles : UpdateOk(cy) \/ UpdateThrows(cy))

LiveSpec == Spec /\ Fairness

\* ------------------------------------------- compiled build, DeviceRTU.js
\* The build in devices/DeviceRTU.js has no offline timer, calls runQueue()
\* without awaiting it and does not rethrow. A pass of runQueue is then an
\* entry of `cycles` of its own, at pc "task" until its loop is over, next
\* to the activations of inputProvider, which wait at pc "update".
Activations == {cy \in Cycles : cy.pc = "update"}
Passes == {cy \in Cycles : cy.pc = "task"}

\* this.runQueue() as inputProvider calls it: the pass up to its first await,
\* or no pass at all on an empty queue.
runQueueJs(bag, q, pr) ==
  LET next == runQueue(NewCycle, q, pr)
  IN  IF next.cycle.pc = "task"
      THEN [cycles |-> Put(bag, next.cycle), promises |-> next.promises]
      ELSE [cycles |-> bag, promises |-> pr]

\* oGate of the build: progress = false, the provider is pushed on, render().
oGateJs(cy, s, err) ==
  /\ shares' = SetShare(s, "progress", FALSE)
  /\ last' = [NoOutcome EXCEPT !.result = "returned", !.gates = 1,
                               !.renders = cy.renders + 1,
                               !.raised = err, !.logged = err,
                               !.online = shares'.online]

\* A handoff arrives: the guard, iGate, runQueue() left running on its own,
\* and update() up to its await.
InputProvider ==
  /\ BagCardinality(cycles) < MaxCycles + MaxQueueIndex
  /\ Cardinality(Activations) < MaxCycles
  /\ IF shares.process
     THEN UNCHANGED vars
     ELSE LET started == runQueueJs(cycles, queue, promises)
          IN  /\ Provider' = 1
              /\ shares' = SetShare(shares, "progress", TRUE)
              /\ cycles' = Put(started.cycles,
                               [NewCycle EXCEPT !.pc = "update", !.renders = 1])
              /\ promises' = started.promises
              /\ UNCHANGED <<queue, queueIndex, offlineTimer, timers, last, codec>>

\* The method a pass awaits settles: resolve or reject, delete the entry, go
\* on with the loop; the pass is over when no key is left.
PassSettle(cy) ==
  /\ cy.pc = "task"
  /\ LET key == Head(cy.keys)
         outcome == MethodOutcome(promises[key].method, key)
         q1 == QueueDelete(queue, key)
         next == RunLoop(cy, Rest(cy.keys, q1), q1, Settle(promises, key, outcome))
     IN  /\ cycles' = IF next.cycle.pc = "task"
                      THEN Put(Take(cycles, cy), next.cycle)
                      ELSE Take(cycles, cy)
         /\ queue' = q1
         /\ promises' = next.promises
  /\ UNCHANGED <<shares, Provider, queueIndex, offlineTimer, timers, last, codec>>

\* update() completed: online = true, then oGate.
ProviderUpdateOk(cy) ==
  /\ cy.pc = "update"
  /\ \E r \in PollOutcomes : ~r.threw
  /\ oGateJs(cy, SetShare(shares, "online", TRUE), "none")
  /\ cycles' = Take(cycles, cy)
  /\ UNCHANGED <<Provider, queue, queueIndex, offlineTimer, timers, promises, codec>>

\* update() failed: online = false, the error is logged, then oGate; nothing
\* is rethrown.
ProviderUpdateThrows(cy) ==
  /\ cy.pc = "update"
  /\ \E r \in PollOutcomes :
       r.threw /\ oGateJs(cy, SetShare(shares, "online", FALSE), r.value)
  /\ cycles' = Take(cycles, cy)
  /\ UNCHANGED <<Provider, queue, queueIndex, offlineTimer, timers, promises, codec>>

NextJs ==
  \/ \E method \in Methods : actionAddQueue(method)
  \/ InputProvider
  \/ \E cy \in Cycles : PassSettle(cy)
  \/ \E cy \in Cycles : ProviderUpdateOk(cy)
  \/ \E cy \in Cycles : ProviderUpdateThrows(cy)

SpecJs == Init /\ [][NextJs]_vars

\* ------------------------------------------------------------ codec calls
\* The static methods of ModbusRTU, called on inputs of every shape below.

\* longest buffer of sample bytes; largest byte count a sample reply declares
MaxBufferLen == 3
MaxByteCount == 3
\* most values a sample request passes as writeData
MaxWriteLen == 5

ByteSamples == {0, 1, 2, 127, 128, 255}
SeqsUpTo(S, n) == UNION {[1..k -> S] : k \in 0..n}

\* Function codes at offset 1: the read class, the write class, exceptions.
FunctionCodeSamples == {1, 2, 3, 4, 5, 6, 15, 16, 129, 143}

\* The buffers of the examples in the doc comments of part_001.
ExampleBuffers ==
  { <<1, 3, 0, 0, 0, 2>>,
    <<1, 3, 4, 0, 10, 0, 20, 75, 8>>,
    <<1, 5, 0, 32, 255, 0, 140, 24>> }

\* What has arrived of the longest read-class reply (byte count 255, 260
\* bytes in all) one byte before its end and at its end.
LongReplies ==
  {<<1, 3, 255>> \o [i \in 1..k |-> 0] : k \in {256, 257}}

\* What follows the byte-count byte of a reply as it arrives: every run of up
\* to MaxByteCount bytes 00 or FF, and runs of one value up to 3 bytes longer.
ReplyTails ==
  SeqsUpTo({0, 255}, MaxByteCount)
    \cup {[i \in 1..k |-> v] : k \in 0..(MaxByteCount + 3), v \in {0, 255}}

\* Buffers handed to the codec: short buffers of sample bytes, every single
\* byte, the documented examples, and whatever may have arrived of a reply:
\* address, function code, a byte-count byte and up to MaxByteCount + 3 more.
Buffers ==
  SeqsUpTo(ByteSamples, MaxBufferLen)
    \cup {<<b>> : b \in 0..255}
    \cup ExampleBuffers
    \cup LongReplies
    \cup {<<1, fc, n>> \o rest :
            fc \in FunctionCodeSamples, n \in 0..MaxByteCount, rest \in ReplyTails}

\* A request with an array, or a value of another kind, as fifth argument.
WithWriteData(req, writeData) ==
  [f \in DOMAIN req \cup {"writeData"} |-> IF f = "writeData" THEN writeData ELSE req[f]]
WithOther(req, value) ==
  [f \in DOMAIN req \cup {"other"} |-> IF f = "other" THEN value ELSE req[f]]

\* Arrays around the limits of the two write-multiple cases (8 coils a byte,
\* 123 registers, 1968 coils), with truthy values other than 1, and register
\* values in and out of 16 bits.
EdgeWriteData ==
  {[i \in 1..n |-> i % 3] : n \in {9, 10, 16, 17, 123, 124, 125, 1968, 1969}}
    \cup {<<4660, 22136, 39612>>, <<-1, 65541>>}

\* Requests at the edges of what makeRequest accepts: codes outside the
\* table, quantities outside 16 bits, slave ids and addresses beyond their
\* width, and the write-multiple cases with the arrays above or no array.
EdgeRequests ==
  LET base(fc, q) ==
        [slaveId |-> 1, functionCode |-> fc, address |-> 32, quantity |-> q]
  IN  {base(fc, 5) : fc \in {0, 8, 17, 129, 255, 257}}
        \cup {base(fc, q) : fc \in {1, 2, 3, 4, 5, 6}, q \in {-1, 65535, 65536}}
        \cup [slaveId : {0, 255, 256, 257}, functionCode : {1, 5, 6},
              address : {65535, 65536, 65568}, quantity : {5}]
        \cup {WithWriteData(base(fc, 3), w) : fc \in {15, 16}, w \in EdgeWriteData}
        \cup {WithOther(base(fc, 5), v) : fc \in {15, 16}, v \in {0, 5}}

\* Requests handed to makeRequest, with and without writeData.
Requests ==
  LET plain == [slaveId : {1}, functionCode : {1, 2, 3, 4, 5, 6, 7, 15, 16},
                address : {0, 32}, quantity : {0, 5, 8}]
  IN  plain
        \cup {WithWriteData(r, w) : r \in plain, w \in SeqsUpTo({0, 1}, MaxWriteLen)}
        \cup EdgeRequests

CodecInputs ==
  {[kind |-> "buffer", bytes |-> b] : b \in Buffers}
    \cup {[f \in DOMAIN r \cup {"kind"} |-> IF f = "kind" THEN "request" ELSE r[f]] :
            r \in Requests}

InitCodec ==
  /\ Constructed
  /\ codec \in {NoCall(i) : i \in CodecInputs}

\* A buffer is in hand: the input itself, or the frame built from the input.
InHand ==
  /\ codec.call \in {"none", "addCRC", "makeRequest"}
  /\ ~codec.result.threw
  /\ codec.input.kind = "buffer" \/ codec.made = "makeRequest"

Call(fn, result) ==
  /\ codec' = [codec EXCEPT !.call = fn, !.result = result]
  /\ UNCHANGED device

MakeRequest ==
  /\ codec.input.kind = "request" /\ codec.call = "none"
  /\ LET made == makeRequest(codec.input)
     IN  codec' = [codec EXCEPT !.call = "makeRequest", !.made = "makeRequest",
                                !.result = made,
                                !.buffer = IF made.threw THEN <<>> ELSE made.value]
  /\ UNCHANGED device

AddCRC ==
  /\ codec.input.kind = "buffer" /\ codec.call = "none"
  /\ LET frame == addCRC(codec.buffer)
     IN  codec' = [codec EXCEPT !.call = "addCRC", !.made = "addCRC",
                                !.result = Returned(frame), !.buffer = frame]
  /\ UNCHANGED device

CalculateCRC16 ==
  InHand /\ Call("calculateCRC16", Returned(calculateCRC16(codec.buffer)))

VerifyCRC ==
  InHand /\ Call("verifyCRC", Returned(verifyCRC(codec.buffer)))

ParseResponse ==
  InHand /\ Call("parseResponse", parseResponse(codec.buffer))

IsCompletePacket ==
  InHand /\ Call("isCompletePacket", Returned(isCompletePacket(codec.buffer)))

NextCodec ==
  \/ MakeRequest
  \/ AddCRC
  \/ CalculateCRC16
  \/ VerifyCRC
  \/ ParseResponse
  \/ IsCompletePacket

SpecCodec == InitCodec /\ [][NextCodec]_vars

\* ----------------------------------------------------------------- claims
Busy == cycles # EmptyBag
Starts == BagCardinality(cycles') > BagCardinality(cycles)
Ends == BagCardinality(cycles') < BagCardinality(cycles)
Keys == 1..Len(promises)

\* C1: a handoff that arrives while an earlier one has not finished is
\* ignored: from a busy state no step starts a further activation (so none
\* touches the timer, the queue, update, online or the busy flag).
C1_BusyHandoffIgnored == [][Busy => ~Starts]_vars

\* C2: every accepted handoff ends with the release sequence run exactly
\* once, on success and on failure alike: the activation that ended last ran
\* oGate once and rendered on entry and on exit, and with no activation in
\* progress the busy flag the gates maintain is false.
C2_ReleaseOnEveryEnd ==
  /\ last.result # "none" =>
       (last.gates = 1 /\ last.renders = 2)
  /\ (~Busy /\ "progress" \in DOMAIN shares) => ~shares.progress

\* C3: the step that ends a cycle whose update failed leaves online false
\* and an offline timer armed, and the next acquisition cancels the timer
\* whose handle the device holds.
C3_FailedCycleArmsTimer ==
  [][/\ (Ends /\ last'.result = "threw") =>
          (~shares'.online /\ offlineTimer' \in timers')
     /\ Starts => offlineTimer \notin timers']_vars

\* C4: the device never holds control while an offline timer is pending.
C4_NeverBusyAndArmed == ~(Busy /\ timers # {})

\* C5: while the device holds control, online is never turned from true to
\* false by the offline timer (a step that leaves the activations alone).
C5_NoOfflineWhileBusy ==
  [][(Busy /\ shares.online /\ ~shares'.online) => cycles' # cycles]_vars

\* C6: a drain calls each task of its snapshot exactly once, in enqueue
\* order, and has removed each of them when it is over, whether or not tasks
\* throw: no task is ever called twice, a pass calls its keys in ascending
\* order, and once it has moved on to update it has called every key of its
\* snapshot and none of them is still queued.
C6_DrainOnceInOrder ==
  /\ \A k \in Keys : promises[k].calls <= 1
  /\ \A cy \in Cycles :
       /\ cy.pc = "task" => \A k \in cy.ran : k <= Head(cy.keys)
       /\ cy.pc = "update" =>
            (cy.ran = cy.snap /\ \A k \in cy.snap : ~HasKey(queue, k))

\* C7: a task enqueued while a pass is draining is not run by that pass (a
\* pass calls none of the keys enqueued during its drain, only keys of its
\* snapshot); it stays queued until some pass calls it (no entry leaves the
\* queue uncalled), and the drain of a cycle that took it into its snapshot
\* has called and removed it by the time that drain is over.
C7_EnqueuedDuringDrainWaits ==
  /\ \A cy \in Cycles : cy.ran \cap cy.late = {} /\ cy.ran \subseteq cy.snap
  /\ \A k \in Keys : promises[k].calls = 0 => HasKey(queue, k)
  /\ \A cy \in Cycles :
       cy.pc = "update" =>
         \A k \in cy.snap : promises[k].calls >= 1 /\ ~HasKey(queue, k)

\* C7 witness: a pass has finished draining its snapshot and is polling while
\* a task enqueued during that drain is still queued and uncalled.
C7_Witness ==
  \E cy \in Cycles :
    /\ cy.pc = "update" /\ cy.ran # {}
    /\ \E k \in cy.late : HasKey(queue, k) /\ promises[k].calls = 0

\* C8: when update of a cycle has started, every task of that cycle's
\* snapshot has settled and none of them is still running anywhere.
C8_PollAfterDrain ==
  \A a \in Cycles :
    a.pc = "update" =>
      /\ \A k \in a.snap : promises[k].state # "pending"
      /\ \A b \in Cycles : b.pc = "task" => Head(b.keys) \notin a.snap

\* C9: the promise of an enqueued task is pending until a drain has run the
\* task; it is then resolved with the task's result if the task completed and
\* rejected with the task's error if it threw; it settles in the step in
\* which a pass awaiting that task goes on, and once settled never changes.
C9_PromiseSettlement ==
  /\ [](\A k \in Keys :
          LET p == promises[k]
          IN  /\ p.state = "pending" => (p.value = 0 /\ (p.calls = 0 => HasKey(queue, k)))
              /\ p.state # "pending" => p.calls >= 1
              /\ p.state = "resolved" => (p.method = "ok" /\ p.value = k)
              /\ p.state = "rejected" => (p.method = "throw" /\ p.value = 0 - k)
              /\ ~HasKey(queue, k) => p.state # "pending")
  /\ [][\A k \in Keys :
          /\ promises[k].state # "pending" => promises'[k] = promises[k]
          /\ (promises[k].state = "pending" /\ promises'[k].state # "pending") =>
               \E cy \in Cycles :
                 cy.pc = "task" /\ Head(cy.keys) = k /\ cycles' # cycles]_vars

\* C9 witness: one promise resolved with its task's result and another
\* rejected with its task's error.
C9_Witness ==
  \E j, k \in Keys :
    /\ promises[j].state = "resolved" /\ promises[j].value = j
    /\ promises[k].state = "rejected" /\ promises[k].value = 0 - k

\* C10: a cycle whose update failed has set online to false, logged the
\* failure and re-raised to its caller the very error update failed with, be it
\* the transport's or one parseResponse raised inside request.
C10_FailureReraised ==
  last.raised # "none" =>
    /\ ~last.online
    /\ last.result = "threw"
    /\ last.logged = last.raised
    /\ last.thrown = last.raised
    /\ last.raised \in {"RequestTimeout", "V2MODBUS_CRC_CHECK_FAILED",
                        "V2MODBUS_PACKET_TOO_SHORT"}

\* C10 witness: a handoff was rejected with the CRC failure parseResponse
\* raised inside request, and the device is offline.
C10_Witness ==
  /\ last.result = "threw"
  /\ last.thrown = "V2MODBUS_CRC_CHECK_FAILED"
  /\ ~last.online

\* C11: online turns from false to true only in the step that ends a cycle
\* whose drain is over and whose poll completed: the step takes an activation
\* that was awaiting update out of the active ones and that activation
\* returns normally. No enqueue, timer firing, failed cycle or ignored
\* handoff turns online on.
C11_OnlineOnlyOnSuccess ==
  [][(~shares.online /\ shares'.online) =>
       \E cy \in Cycles :
         /\ cy.pc = "update"
         /\ cycles' = Take(cycles, cy)
         /\ last'.result = "returned"
         /\ last'.online]_vars

\* C11 witness: a cycle that drained a task and polled has returned normally
\* and the device is online.
C11_Witness ==
  /\ last.result = "returned" /\ last.online
  /\ shares.online
  /\ \E k \in Keys : promises[k].state # "pending"

\* C12: two control cycles of one device are never active at the same time
\* (so at most one of its requests is in flight).
C12_OneCycleAtATime == BagCardinality(cycles) <= 1

\* C13: the offline timer armed at release is single-shot and, when it fires,
\* sets online to false and the handle to 0: a step that fires a pending
\* timer (takes it out of the timer table while no activation starts or ends)
\* removes that timer only, leaves online false and offlineTimer 0; and when
\* the cycle that ended last released control, no handoff is in progress and
\* no timer is pending any more, the device is offline with offlineTimer 0.
C13_OfflineTimerFires ==
  /\ [](( /\ ~Busy
          /\ last.result = "returned"
          /\ timers = {}) => (~shares.online /\ offlineTimer = 0))
  /\ [][\A t \in TimerId :
          (t \in timers /\ t \notin timers' /\ cycles' = cycles) =>
             /\ timers' = timers \ {t}
             /\ ~shares'.online
             /\ offlineTimer' = 0]_vars

\* C13 witness: the cycle that ended last went online and released control,
\* no handoff followed, the timer has fired: offline, handle 0, none pending.
C13_Witness ==
  /\ ~Busy
  /\ last.result = "returned" /\ last.online
  /\ timers = {}
  /\ ~shares.online
  /\ offlineTimer = 0

\* C14: for every buffer b, the empty one included, addCRC(b) is b followed
\* by two bytes that read little-endian as calculateCRC16(b), and verifyCRC
\* of a frame built by addCRC or returned by makeRequest is true.
C14_CrcRoundTrip ==
  /\ codec.made = "addCRC" =>
       LET n == Len(codec.input.bytes)
       IN  /\ Len(codec.buffer) = n + 2
           /\ SubSeq(codec.buffer, 1, n) = codec.input.bytes
           /\ codec.buffer[n + 1] + 256 * codec.buffer[n + 2]
                = calculateCRC16(codec.input.bytes)
  /\ (codec.made # "none" /\ codec.call = "verifyCRC") => codec.result.value

\* C14 witness: verifyCRC was called on addCRC of the empty buffer and
\* returned true.
C14_Witness ==
  /\ codec.made = "addCRC" /\ codec.input.bytes = <<>>
  /\ codec.call = "verifyCRC" /\ codec.result.value

\* C15: calculateCRC16 of 01 03 00 00 00 02 returns 0xC40B (50187).
C15_Crc16Example ==
  (/\ codec.call = "calculateCRC16" /\ codec.made = "none"
   /\ codec.buffer = <<1, 3, 0, 0, 0, 2>>) => codec.result.value = 50187

WriteCoilsExample ==
  [kind |-> "request", slaveId |-> 1, functionCode |-> 15, address |-> 32,
   quantity |-> 5, writeData |-> <<1, 0, 1, 0, 1>>]

\* C16: makeRequest(1, 0x0F, 0x0020, 5, [1,0,1,0,1]) returns exactly
\* 01 0F 00 20 00 05 01 1A 9F 5B.
C16_WriteCoilsFrame ==
  (codec.call = "makeRequest" /\ codec.input = WriteCoilsExample) =>
     /\ ~codec.result.threw
     /\ codec.result.value = <<1, 15, 0, 32, 0, 5, 1, 26, 159, 91>>

ReadCoilsExample ==
  [kind |-> "request", slaveId |-> 1, functionCode |-> 1, address |-> 0,
   quantity |-> 8]

\* C17: makeRequest(1, 0x01, 0x0000, 8) returns exactly
\* 01 01 00 00 00 08 3D CC.
C17_ReadCoilsFrame ==
  (codec.call = "makeRequest" /\ codec.input = ReadCoilsExample) =>
     /\ ~codec.result.threw
     /\ codec.result.value = <<1, 1, 0, 0, 0, 8, 61, 204>>

\* C17 witness: makeRequest has been called on (1, 0x01, 0x0000, 8) and has
\* returned a frame.
C17_Witness ==
  /\ codec.call = "makeRequest" /\ codec.input = ReadCoilsExample
  /\ codec.buffer = <<1, 1, 0, 0, 0, 8, 61, 204>>

\* C18: parseResponse of 01 03 04 00 0A 00 14 4B 08 succeeds and returns
\* slaveId 1, functionCode 3, byteCount 4, payload 00 0A 00 14.
C18_ParseExample ==
  (/\ codec.call = "parseResponse" /\ codec.made = "none"
   /\ codec.buffer = <<1, 3, 4, 0, 10, 0, 20, 75, 8>>) =>
     /\ ~codec.result.threw
     /\ codec.result.value = [slaveId |-> 1, functionCode |-> 3, byteCount |-> 4,
                              data |-> <<0, 10, 0, 20>>]

\* C19: for a read-class reply declaring byte count n, isCompletePacket is
\* false on every prefix shorter than n + 5 bytes (the prefixes too short to
\* hold the count included) and true on the buffer of exactly n + 5 bytes.
C19_ReadReplyComplete ==
  codec.call = "isCompletePacket" =>
    /\ Len(codec.buffer) < 3 => ~codec.result.value
    /\ (Len(codec.buffer) >= 3 /\ codec.buffer[2] \in ReadClass) =>
         /\ Len(codec.buffer) < codec.buffer[3] + 5 => ~codec.result.value
         /\ Len(codec.buffer) = codec.buffer[3] + 5 => codec.result.value

\* C19 amended: for a read-class reply declaring byte count n in 1..255,
\* isCompletePacket is false on every prefix shorter than n + 5 bytes and
\* true on the buffer of exactly n + 5 bytes; the 5-byte reply declaring
\* byte count 0 is not reported complete.
C19_ReadReplyCompleteFrom1 ==
  codec.call = "isCompletePacket" =>
    /\ Len(codec.buffer) < 3 => ~codec.result.value
    /\ (Len(codec.buffer) >= 3 /\ codec.buffer[2] \in ReadClass) =>
         /\ Len(codec.buffer) < codec.buffer[3] + 5 => ~codec.result.value
         /\ (codec.buffer[3] >= 1 /\ Len(codec.buffer) = codec.buffer[3] + 5)
              => codec.result.value
         /\ (codec.buffer[3] = 0 /\ Len(codec.buffer) = 5) => ~codec.result.value

\* C19 witness: isCompletePacket returned true on the 260 bytes of a
\* read-class reply declaring byte count 255.
C19_Witness ==
  /\ codec.call = "isCompletePacket"
  /\ Len(codec.buffer) = 260
  /\ codec.buffer[2] \in ReadClass /\ codec.buffer[3] = 255
  /\ codec.result.value

\* C20: on a buffer whose byte at offset 1 is not a read-class function code
\* (write-class and exception codes included) isCompletePacket returns true
\* exactly when the buffer is 8 bytes long.
C20_OtherCodesEightBytes ==
  (/\ codec.call = "isCompletePacket"
   /\ Len(codec.buffer) >= 2
   /\ codec.buffer[2] \notin ReadClass) =>
     (codec.result.value <=> Len(codec.buffer) = 8)

\* C20 witness: isCompletePacket returned true on an 8-byte buffer carrying
\* an exception code.
C20_Witness ==
  /\ codec.call = "isCompletePacket"
  /\ Len(codec.buffer) = 8
  /\ codec.buffer[2] >= 128
  /\ codec.result.value

\* C21: parseResponse fails with PacketTooShort on every buffer shorter than
\* 4 bytes, whatever its CRC, and with CrcCheckFailed on every buffer of at
\* least 4 bytes whose last two bytes are not the CRC16 of the bytes before
\* them; in neither case does it return a response.
C21_ParseFailures ==
  codec.call = "parseResponse" =>
    LET n == Len(codec.buffer)
    IN  /\ n < 4 =>
             (codec.result.threw /\ codec.result.value = "V2MODBUS_PACKET_TOO_SHORT")
        /\ (/\ n >= 4
            /\ codec.buffer[n - 1] + 256 * codec.buffer[n]
                 # calculateCRC16(SubSeq(codec.buffer, 1, n - 2))) =>
             (codec.result.threw /\ codec.result.value = "V2MODBUS_CRC_CHECK_FAILED")

\* C21 witness: a 3-byte buffer that carries the right CRC of its first byte
\* was refused as too short.
C21_Witness ==
  /\ codec.made = "addCRC" /\ Len(codec.buffer) = 3
  /\ codec.call = "parseResponse"
  /\ codec.result.threw /\ codec.result.value = "V2MODBUS_PACKET_TOO_SHORT"

\* A frame with a valid CRC has been parsed.
ParsedFrame ==
  /\ codec.call = "parseResponse"
  /\ Len(codec.buffer) >= 4
  /\ verifyCRC(codec.buffer)

C23_SliceByFunctionCode ==
  (ParsedFrame /\ codec.buffer[2] < 128) =>
    LET n == Len(codec.buffer)
        response == codec.result.value
    IN  /\ ~codec.result.threw
        /\ response.slaveId = codec.buffer[1]
        /\ response.functionCode = codec.buffer[2]
        /\ IF codec.buffer[2] \in {1, 2, 3, 4}
           THEN /\ response.byteCount = codec.buffer[3]
                /\ response.data = [i \in 1..(n - 5) |-> codec.buffer[i + 3]]
           ELSE /\ response.byteCount = n - 4
                /\ response.data = [i \in 1..(n - 4) |-> codec.buffer[i + 2]]

\* C23 witness: a read reply declaring 2 bytes was parsed to those 2 bytes.
C23_Witness ==
  /\ ParsedFrame /\ codec.buffer[2] = 3 /\ codec.buffer[3] = 2
  /\ Len(codec.buffer) = 7
  /\ codec.result.value.byteCount = 2
  /\ Len(codec.result.value.data) = 2

\* C24: makeRequest with function code 0x0F fails with
\* WRITE_DATA_REQUIRED_COILS when writeData is absent or is not an array
\* (whatever else was passed, the presence check coming first), and with
\* COILS_COUNT_INVALID when the array is empty or longer than 1968; a failed
\* call returns no frame.
C24_WriteCoilsFailures ==
  (codec.call = "makeRequest" /\ codec.input.functionCode = 15) =>
    /\ ~HasWriteData(codec.input) =>
         (codec.result.threw /\ codec.result.value = "V2MODBUS_WRITE_DATA_REQUIRED_COILS")
    /\ (HasWriteData(codec.input) /\ Len(codec.input.writeData) \notin 1..1968) =>
         (codec.result.threw /\ codec.result.value = "V2MODBUS_COILS_COUNT_INVALID")
    /\ codec.result.threw => codec.buffer = <<>>

\* C24 witness: 1969 coil values were refused with COILS_COUNT_INVALID.
C24_Witness ==
  /\ codec.call = "makeRequest" /\ codec.input.functionCode = 15
  /\ HasWriteData(codec.input) /\ Len(codec.input.writeData) = 1969
  /\ codec.result.threw /\ codec.result.value = "V2MODBUS_COILS_COUNT_INVALID"

\* C25: makeRequest with function code 0x10 fails with
\* WRITE_DATA_REQUIRED_REGISTERS when no writeData is passed and with
\* REGISTERS_COUNT_INVALID when the array is empty or longer than 123; for
\* 1..123 values it returns a frame whose quantity field is the array length,
\* whatever the quantity argument, and whose byte-count field is twice that.
C25_WriteRegistersLimits ==
  (codec.call = "makeRequest" /\ codec.input.functionCode = 16) =>
    /\ DOMAIN codec.input \cap {"writeData", "other"} = {} =>
         (codec.result.threw
            /\ codec.result.value = "V2MODBUS_WRITE_DATA_REQUIRED_REGISTERS")
    /\ (HasWriteData(codec.input) /\ Len(codec.input.writeData) \notin 1..123) =>
         (codec.result.threw /\ codec.result.value = "V2MODBUS_REGISTERS_COUNT_INVALID")
    /\ (HasWriteData(codec.input) /\ Len(codec.input.writeData) \in 1..123) =>
         LET count == Len(codec.input.writeData)
         IN  /\ ~codec.result.threw
             /\ codec.result.value[5] = count \div 256
             /\ codec.result.value[6] = count % 256
             /\ codec.result.value[7] = 2 * count

\* C25 witness: 123 registers passed with quantity 3 gave a frame declaring
\* 123 registers in 246 bytes.
C25_Witness ==
  /\ codec.call = "makeRequest" /\ codec.input.functionCode = 16
  /\ codec.input.quantity = 3
  /\ HasWriteData(codec.input) /\ Len(codec.input.writeData) = 123
  /\ ~codec.result.threw
  /\ codec.result.value[6] = 123 /\ codec.result.value[7] = 246

\* C26: makeRequest fails with UNSUPPORTED_FUNCTION_CODE for every function
\* code other than 0x01..0x06, 0x0F and 0x10, and never fails with it for
\* one of those eight codes (given the write data 0x0F and 0x10 require).
C26_SupportedCodes ==
  codec.call = "makeRequest" =>
    IF codec.input.functionCode \notin {1, 2, 3, 4, 5, 6, 15, 16}
    THEN codec.result.threw
           /\ codec.result.value = "V2MODBUS_UNSUPPORTED_FUNCTION_CODE"
    ELSE (codec.input.functionCode \in {15, 16} => HasWriteData(codec.input)) =>
           ~(codec.result.threw
               /\ codec.result.value = "V2MODBUS_UNSUPPORTED_FUNCTION_CODE")

\* C26 witness: function code 0x11 was refused as unsupported.
C26_Witness ==
  /\ codec.call = "makeRequest" /\ codec.input.functionCode = 17
  /\ codec.result.threw
  /\ codec.result.value = "V2MODBUS_UNSUPPORTED_FUNCTION_CODE"

\* C27: makeRequest wraps slaveId to 8 bits and address to 16 bits instead of
\* rejecting them: the call with slaveId + 256 and address + 65536 has the
\* same outcome as the call made, and a frame returned carries
\* slaveId mod 256 in byte 0 and address mod 65536, big-endian, in bytes 2..3.
C27_MaskByWraparound ==
  codec.call = "makeRequest" =>
    LET again == makeRequest([codec.input EXCEPT !.slaveId = @ + 256,
                                                 !.address = @ + 65536])
    IN  /\ again.threw = codec.result.threw
        /\ again.value = codec.result.value
        /\ ~codec.result.threw =>
             /\ codec.result.value[1] = codec.input.slaveId % 256
             /\ codec.result.value[3] = (codec.input.address % 65536) \div 256
             /\ codec.result.value[4] = codec.input.address % 256

\* C27 witness: slaveId 257 and address 65568 gave a frame for slave 1 at
\* address 32.
C27_Witness ==
  /\ codec.call = "makeRequest" /\ ~codec.result.threw
  /\ codec.input.slaveId = 257 /\ codec.input.address = 65568
  /\ codec.result.value[1] = 1
  /\ codec.result.value[3] = 0 /\ codec.result.value[4] = 32

C29_SingleCoilValue ==
  (codec.call = "makeRequest" /\ codec.input.functionCode = 5) =>
    /\ ~codec.result.threw
    /\ Len(codec.result.value) = 8
    /\ codec.result.value[5] = (IF codec.input.quantity # 0 THEN 255 ELSE 0)
    /\ codec.result.value[6] = 0

\* C29 witness: quantity 65536, which no 16-bit field holds, was written as
\* 0xFF00.
C29_Witness ==
  /\ codec.call = "makeRequest" /\ codec.input.functionCode = 5
  /\ codec.input.quantity = 65536
  /\ ~codec.result.threw
  /\ codec.result.value[5] = 255 /\ codec.result.value[6] = 0

\* C30: a queued task, and so every request it issues, runs only inside an
\* activation of inputBus, between the handoff that activation accepted and
\* its end: a task that has been called and has not settled is the one an
\* activation in progress is awaiting. Hence actionAddQueue, which starts no
\* activation, runs no task, and with no activation in progress (control
\* released) no task is running.
C30_TasksRunInsideCycle ==
  \A k \in Keys :
    (promises[k].calls >= 1 /\ promises[k].state = "pending") =>
      \E cy \in Cycles : cy.pc = "task" /\ Head(cy.keys) = k

\* C30 witness: an activation is awaiting the task it called while a task
\* enqueued in the meantime has not been called.
C30_Witness ==
  \E cy \in Cycles :
    /\ cy.pc = "task"
    /\ promises[Head(cy.keys)].calls = 1
    /\ promises[Head(cy.keys)].state = "pending"
    /\ \E k \in cy.late : promises[k].calls = 0 /\ promises[k].state = "pending"

\* C31: in the compiled build every queued task has settled before update()
\* starts, so a request of a queued task and a request of update() are never
\* in flight together: no pass of runQueue is awaiting a task while an
\* activation of inputProvider is awaiting update().
C31_QueueSettledBeforeUpdate ==
  ~(\E pass \in Cycles, activation \in Cycles :
      pass.pc = "task" /\ activation.pc = "update")

\* C32: as long as handoffs keep arriving and every task and poll routine
\* terminates, every action enqueued with actionAddQueue is eventually
\* executed and its promise settled, also when it was enqueued before or
\* after a control cycle that failed.
C32_EnqueuedEventuallySettled ==
  \A k \in 1..MaxQueueIndex :
    (k \in Keys) ~>
      (k \in Keys /\ promises[k].calls >= 1 /\ promises[k].state # "pending")

\* C32 witness: after a cycle that failed, a later activation has run a task
\* to its end and gone on to update().
C32_Witness ==
  /\ last.result = "threw"
  /\ \E cy \in Cycles :
       /\ cy.pc = "update"
       /\ \E k \in cy.ran : promises[k].calls >= 1 /\ promises[k].state # "pending"

\* C33: a queued task that throws affects only its own promise: in the step
\* that rejects the promise no activation ends (the handoff does not fail),
\* online and the other shares are as they were, and the pass that awaited
\* the task goes on, either to the next entry of its snapshot that is still
\* queued, whose task it calls, or, none being left, to update().
C33_ThrowingTaskIsolated ==
  [][\A k \in Keys :
       (promises[k].state = "pending" /\ promises'[k].state = "rejected") =>
         /\ shares' = shares
         /\ last' = last
         /\ BagCardinality(cycles') = BagCardinality(cycles)
         /\ \A j \in Keys \ {k} : promises'[j].state = promises[j].state
         /\ \E cy \in Cycles, nxt \in BagToSet(cycles') :
              /\ cy.pc = "task" /\ Head(cy.keys) = k
              /\ nxt.snap = cy.snap
              /\ LET left == {cy.keys[i] : i \in 2..Len(cy.keys)}
                 IN  \/ /\ nxt.pc = "update"
                        /\ \A j \in left : ~HasKey(queue', j)
                     \/ /\ nxt.pc = "task"
                        /\ Head(nxt.keys) \in left
                        /\ promises'[Head(nxt.keys)].calls
                             = promises[Head(nxt.keys)].calls + 1]_vars

\* C33 witness: a pass has reached update() after a task of its snapshot
\* threw and a later one completed.
C33_Witness ==
  \E cy \in Cycles :
    /\ cy.pc = "update"
    /\ \E j, k \in cy.ran :
         /\ j < k
         /\ promises[j].state = "rejected"
         /\ promises[k].state = "resolved"

\* C34: the task of a queue entry is started at most once, also when passes
\* of runQueue overlap, a second one starting while a task of an earlier one
\* is still awaited and its entry still queued.
C34_StartedAtMostOnce ==
  \A k \in Keys : promises[k].calls <= 1

\* C35: at most one offline timer is pending at any time, and it is the one
\* whose handle the device holds, so that the next acquisition can cancel it.
C35_OnePendingTimer ==
  timers \subseteq {offlineTimer}

\* C36: whenever online is true and no control cycle is in progress, an
\* offline timer is pending.
C36_OnlineIsSupervised ==
  (shares.online /\ ~Busy) => timers # {}

\* C36 witness: the device is online between two cycles, its timer armed.
C36_Witness ==
  /\ shares.online /\ ~Busy
  /\ offlineTimer \in timers

\* C37: no operation of the device writes the share flag `process`, which
\* the guard of inputBus reads (the gates write `progress`): the flag is
\* false in every reachable state.
C37_ProcessNeverWritten ==
  ~shares.process

\* C37 witness: iGate has run, progress is true and process is still false.
C37_Witness ==
  /\ Busy
  /\ "progress" \in DOMAIN shares /\ shares.progress
  /\ ~shares.process

\* C38: a well-formed exception reply in the documented wire format (slaveId,
\* functionCode | 0x80, exception code, CRC16: 5 bytes) is accepted as a
\* complete packet by isCompletePacket, and request() on a line carrying it
\* returns a response with an exceptionCode instead of ending in a timeout.
C38_ExceptionReplyAccepted ==
  (/\ codec.call = "isCompletePacket" /\ codec.made = "addCRC"
   /\ Len(codec.buffer) = 5 /\ codec.buffer[2] >= 128) =>
    /\ codec.result.value
    /\ ~request(codec.buffer).threw
    /\ "exceptionCode" \in DOMAIN request(codec.buffer).value

\* A CRC-valid read reply that declares 2 bytes and carries 1: 6 bytes, which
\* isCompletePacket does not accept.
ShortReadReply == addCRC(<<1, 3, 2, 0>>)

\* C39: for every CRC-valid read-class frame (0x01..0x04) that
\* isCompletePacket accepts, parseResponse returns a byteCount equal to the
\* length of the payload it returns; for a frame isCompletePacket does not
\* accept the two may differ, parseResponse never comparing the length byte
\* with the length, as on the reply 01 03 02 00 + CRC.
C39_ByteCountIsPayloadLength ==
  codec.call = "parseResponse" =>
    /\ (/\ ParsedFrame /\ codec.buffer[2] \in {1, 2, 3, 4}
        /\ isCompletePacket(codec.buffer)) =>
         /\ ~codec.result.threw
         /\ codec.result.value.byteCount = Len(codec.result.value.data)
    /\ LET loose == parseResponse(ShortReadReply)
       IN  /\ ~isCompletePacket(ShortReadReply)
           /\ ~loose.threw
           /\ loose.value.byteCount = 2 /\ Len(loose.value.data) = 1

\* C39 witness: a complete read reply of 3 payload bytes was parsed to a
\* byteCount of 3 and 3 bytes of data.
C39_Witness ==
  /\ ParsedFrame /\ codec.buffer[2] \in {1, 2, 3, 4}
  /\ isCompletePacket(codec.buffer)
  /\ codec.result.value.byteCount = 3
  /\ Len(codec.result.value.data) = 3

====
